---- MODULE Spec2Model ----
(***************************************************************************)
(* The Ogg Opus streaming decoder of audio/decoders/opus.cpp: OpusStream   *)
(* (a fixed sample buffer with the two pointers _pos and _bufferEnd over   *)
(* an OggOpusFile handle) and its factory makeOpusStream.                  *)
(*                                                                         *)
(* The opusfile library is the environment.  Its stream is nFrames frames  *)
(* of chans channels; the interleaved sample of frame f and channel c is   *)
(* identified by its index f * chans + c.  What each op_read call answers  *)
(* (how many frames, a hole, an error) is chosen freely, call by call.     *)
(*                                                                         *)
(* Spec is the decoder of short streams under every call sequence.         *)
(* SpecLength opens streams long enough to have a duration, and SpecLife   *)
(* tears down decoders over owned and over borrowed byte sources; both     *)
(* seek by whole milliseconds only.                                        *)
(*                                                                         *)
(* SpecCallbacks is the seek callback the codec reaches the byte source    *)
(* through.  Two other subsystems share no state with the decoder:         *)
(* SpecConsole is the Tucker debug console's show, box and audio commands  *)
(* over its flag word, and SpecProgress is the Nippon Safes savefile that  *)
(* records completed game parts.                                           *)
(***************************************************************************)
EXTENDS Integers, Sequences, FiniteSets, TLC

\* ------------------------------------------------------------- bounds
\* Frames per channel the sample buffer has room for when stereo (120*48 in the code).
BufferFrames == 2
\* Longest stream, in frames.
MaxFrames == 3
\* Largest numSamples handed to readBuffer.
MaxRead == 3
\* Latest op_read call of one operation whose answer is chosen freely; the
\* other calls of that operation answer as many frames as fit.
MaxCalls == 2

\* Longest stream whose duration is looked at, in halves of a second.
MaxHalves == 2
\* Codec position, in frames, up to which such a stream is read on.
MaxPos == 4
\* Multiples of 2^31 a byte offset the codec asks for goes up to, either side of zero.
MaxHi == 2

\* ------------------------------------------------------------- constants
\* sizeof(_buffer)/sizeof(*_buffer): opus_int16 _buffer[120*48*2]
BufferSize == BufferFrames * 2

\* _rate = 48000
Rate == 48000

\* Milliseconds of audio the sample buffer holds: _buffer[120 * 48 * 2]
FillMs == 120

\* opusfile status codes (the cases of opusError)
OP_FALSE == -1
OP_HOLE == -3
OP_EREAD == -128
OP_EINVAL == -131
OP_ENOTFORMAT == -132
OP_EBADPACKET == -136
OP_EBADLINK == -137

\* The failing statuses the model lets op_open_callbacks, op_read and op_pcm_seek return.
OpenErrors == {OP_EREAD, OP_ENOTFORMAT}
ReadErrors == {OP_FALSE, OP_EBADPACKET}
SeekErrors == {OP_EINVAL, OP_EBADLINK}

\* Frames a hole may lose.
HoleSkips == {0, 1}

\* The failing status the model lets op_pcm_total return.
TotalErrors == {OP_EINVAL}

ChannelCounts == {1, 2}
PointerWidths == {32, 64}

Min(a, b) == IF a < b THEN a ELSE b

\* ------------------------------------------------------------- state
VARIABLES
  chans,      \* environment: op_channel_count of the stream
  nFrames,    \* environment: frames the stream holds
  ptrBits,    \* environment: pointer width of the build
  dispose,    \* environment: disposeAfterUse == DisposeAfterUse::YES
  phase,      \* "init" | "live" | "null" (factory returned 0) | "crashed" | "deleted"
  file,       \* _file: the handle's state ("none" | "open" | "null" | "freed") and its op_free count
  inStream,   \* the byte source behind _inStream: its state ("alive" | "deleted") and its delete count
  rate,       \* _rate
  length,     \* _length, in milliseconds
  cpos,       \* the codec's decode position, in frames
  channels,   \* _channels
  buffer,     \* _buffer, as the sample indices it holds (-1: never written)
  pos,        \* _pos
  bufferEnd,  \* _bufferEnd
  delivered,  \* history: samples copied out since the open or the last successful op_pcm_seek
  decoded,    \* history: samples op_read wrote since then
  base,       \* history: sample index the codec was positioned at then
  everError,  \* history: op_open_callbacks, op_read or op_pcm_seek has returned a negative status
  holeSeen,   \* history: an OP_HOLE since the open or the last successful op_pcm_seek
  failed,     \* history: a refill returned false or a seek failed, and no seek returned true since
  misused,    \* history: a codec function was called on a handle that is not open
  lastFill,   \* history: the most recent _fillBuffer call
  last,       \* history: the most recent public call (arg: numSamples of a readBuffer, the
              \* frame asked of the codec by a seek that returned true)
  source,     \* the byte source behind the callbacks: the seek it was last asked for
  adapter,    \* history: the most recent callback the codec made
  flags,      \* TuckerConsole::_flags
  console,    \* history: the most recent console command
  slot,       \* the savefile of SPECIAL_SAVESLOT: whether it exists, and its bytes
  game,       \* the process that runs SaveLoad_ns: "running" | "crashed"
  recorded,   \* history: the parts a setPartComplete call has returned for
  saveLoad    \* history: the most recent SaveLoad_ns call

vars == <<chans, nFrames, ptrBits, dispose, phase, file, inStream, rate, length, cpos,
          channels, buffer, pos, bufferEnd, delivered, decoded, base, everError, holeSeen,
          failed, misused, lastFill, last, source, adapter, flags, console,
          slot, game, recorded, saveLoad>>

\* The decoder, its codec and their history.
decoder == <<chans, nFrames, ptrBits, dispose, phase, file, inStream, rate, length, cpos,
             channels, buffer, pos, bufferEnd, delivered, decoded, base, everError,
             holeSeen, failed, misused, lastFill, last>>

\* What the decoder's own calls leave alone.
others == <<source, adapter, flags, console, slot, game, recorded, saveLoad>>

\* The savefile of the game parts and what touches it.
progress == <<slot, game, recorded, saveLoad>>

\* ------------------------------------------------------------- pointers
\* A pointer into (or out of) _buffer is its element offset from _buffer,
\* hi * 2^32 + lo with lo kept small: hi # 0 only on a 64-bit build.
Ptr(off) == [hi |-> 0, lo |-> off]

PtrLess(p, q) == p.hi < q.hi \/ (p.hi = q.hi /\ p.lo < q.lo)

\* (int)(q - p): the low 32 bits of the difference
IntDiff(q, p) == q.lo - p.lo

\* An unsigned 32-bit value u is kept as its signed representative s, u = s mod 2^32.
\* u < bound, for a small bound.
UintLess(s, bound) == s >= 0 /\ s < bound

\* p + u for the uint u with representative s: a negative s is the offset 2^32 + s,
\* which a 32-bit address space wraps to s elements before p.
PtrAddUint(p, s) ==
  IF s >= 0 THEN [p EXCEPT !.lo = p.lo + s]
  ELSE IF ptrBits = 64 THEN [hi |-> p.hi + 1, lo |-> p.lo + s]
  ELSE [p EXCEPT !.lo = p.lo + s]

\* bool endOfData() const { return _pos >= _bufferEnd; }
endOfData(p, e) == ~PtrLess(p, e)

\* ------------------------------------------------------------- the codec
\* As many frames as fit: what an op_read call answers unless chosen otherwise.
Full == [kind |-> "data", max |-> BufferSize]

\* What the chosen op_read call may answer instead: one frame only, a hole
\* that loses skip frames, or a failing status.
Responses ==
  [kind : {"data"}, max : {1}]
    \cup [kind : {"hole"}, skip : HoleSkips]
    \cup [kind : {"error"}, code : ReadErrors]

\* The answers of an operation's op_read calls, in order: all Full, or Full
\* but for the call numbered at.
Scripts ==
  {<<>>} \cup {[i \in 1..at |-> IF i = at THEN r ELSE Full] : at \in 1..MaxCalls, r \in Responses}

\* The scripts whose chosen answer is for one of an operation's first n
\* op_read calls.
ScriptsWithin(n) == {script \in Scripts : Len(script) <= n}

NextResponse(script) ==
  IF script = <<>> THEN Full ELSE Head(script)

Rest(script) == IF script = <<>> THEN <<>> ELSE Tail(script)

\* op_read(_file, pcm, bufSize, NULL): the samples written to pcm, the status
\* (frames per channel, 0 at the end of the stream, or negative) and the new position.
OpRead(cp, bufSize, resp) ==
  CASE resp.kind = "error" -> [result |-> resp.code, cpos |-> cp, pcm |-> <<>>]
    [] resp.kind = "hole" ->
         [result |-> OP_HOLE, cpos |-> Min(cp + resp.skip, nFrames), pcm |-> <<>>]
    [] OTHER ->
         LET n == Min(resp.max, Min(nFrames - cp, bufSize \div chans))
         IN [result |-> n, cpos |-> cp + n,
             pcm |-> [i \in 1..(n * chans) |-> cp * chans + i - 1]]

\* ------------------------------------------------------------- _fillBuffer
\* The codec writing pcm at _buffer + samplesRead.
Store(buf, samplesRead, pcm) ==
  [i \in 1..BufferSize |->
     IF i > samplesRead /\ i <= samplesRead + Len(pcm) THEN pcm[i - samplesRead] ELSE buf[i]]

\* Mutant: every status above the lowest known error taken as recoverable.
IsFatalBelowHole(result) == result < OP_HOLE

\* result < 0 && result != OP_HOLE
IsFatal(result) == result < 0 /\ result # OP_HOLE

\* Mutant: the per-channel count added as if it counted samples.
AccumulateFrames(samplesRead, result, nch) == samplesRead + result

\* samplesRead += result * _channels  (uint += int)
Accumulate(samplesRead, result, nch) == samplesRead + result * nch

NoLog == [written |-> <<>>, sum |-> 0, holes |-> 0, negs |-> {}, calls |-> 0]

Logged(log, r, nch) ==
  [written |-> log.written \o r.pcm,
   sum |-> log.sum + (IF r.result > 0 THEN r.result * nch ELSE 0),
   holes |-> log.holes + (IF r.result = OP_HOLE THEN 1 ELSE 0),
   negs |-> log.negs \cup (IF r.result < 0 THEN {r.result} ELSE {}),
   calls |-> log.calls + 1]

\* _pos = _buffer; _bufferEnd = _pos + samplesRead; return true;  (exit: what
\* ended the loop, its condition or the break at result == 0)
FillDone(st, buf, samplesRead, cp, script, log, exit) ==
  [ok |-> TRUE, script |-> script, log |-> log, exit |-> exit, samplesRead |-> samplesRead,
   st |-> [st EXCEPT !.buffer = buf, !.pos = Ptr(0),
                     !.bufferEnd = PtrAddUint(Ptr(0), samplesRead), !.cpos = cp]]

\* _pos = _bufferEnd; return false;
FillFail(st, buf, samplesRead, cp, script, log) ==
  [ok |-> FALSE, script |-> script, log |-> log, exit |-> "error", samplesRead |-> samplesRead,
   st |-> [st EXCEPT !.buffer = buf, !.pos = st.bufferEnd, !.cpos = cp]]

\* while (samplesRead < bufferSize) { ... }
RECURSIVE FillLoop(_, _, _, _, _, _)
FillLoop(st, buf, samplesRead, cp, script, log) ==
  IF ~UintLess(samplesRead, BufferSize)
  THEN FillDone(st, buf, samplesRead, cp, script, log, "condition")
  ELSE LET r == OpRead(cp, BufferSize - samplesRead, NextResponse(script))
           log2 == Logged(log, r, st.channels)
       IN IF IsFatal(r.result) THEN FillFail(st, buf, samplesRead, r.cpos, Rest(script), log2)
          ELSE IF r.result = 0
          THEN FillDone(st, buf, samplesRead, r.cpos, Rest(script), log2, "zero")
          ELSE FillLoop(st, Store(buf, samplesRead, r.pcm),
                        Accumulate(samplesRead, r.result, st.channels), r.cpos, Rest(script), log2)

\* bool OpusStream::_fillBuffer(): st is the decoder with its codec,
\* [buffer, pos, bufferEnd, channels, rate, length, cpos]
fillBuffer(st, script) == FillLoop(st, st.buffer, 0, st.cpos, script, NoLog)

\* What lastFill keeps of a _fillBuffer call: its return value, what the codec
\* did in it, and the pointers it left.
FillRecord(f) ==
  [ran |-> TRUE, ok |-> f.ok, sum |-> f.log.sum, holes |-> f.log.holes, negs |-> f.log.negs,
   written |-> f.log.written, pos |-> f.st.pos, bufferEnd |-> f.st.bufferEnd,
   calls |-> f.log.calls, exit |-> f.exit, samplesRead |-> f.samplesRead]

NoFill ==
  [ran |-> FALSE, ok |-> FALSE, sum |-> 0, holes |-> 0, negs |-> {},
   written |-> <<>>, pos |-> Ptr(0), bufferEnd |-> Ptr(0),
   calls |-> 0, exit |-> "none", samplesRead |-> 0]

\* ------------------------------------------------------------- readBuffer
\* while (samples < numSamples && _pos < _bufferEnd)
CanCopy(samples, numSamples, p, e) == samples < numSamples /\ PtrLess(p, e)

\* const int len = MIN(numSamples - samples, (int)(_bufferEnd - _pos));
CopyLen(want, p, e) == Min(want, IntDiff(e, p))

\* memcpy(buffer, _pos, len * 2): the samples at _pos .. _pos + len - 1
Copied(buf, p, len) == [i \in 1..len |-> buf[p.lo + i]]

\* What a public call has done so far: its refills, its op_read calls and
\* what the codec did in them, and its copy loop's iterations, with those that copied nothing.
NoCall ==
  [fills |-> 0, calls |-> 0, written |-> <<>>, holes |-> 0, negs |-> {}, fill |-> NoFill,
   iters |-> 0, stalled |-> 0]

AfterFill(acc, f) ==
  [acc EXCEPT !.fills = @ + 1, !.calls = @ + f.log.calls, !.written = @ \o f.log.written,
              !.holes = @ + f.log.holes, !.negs = @ \cup f.log.negs,
              !.fill = FillRecord(f)]

\* One more iteration of readBuffer's loop, copying len samples.
AfterCopy(acc, len) ==
  [acc EXCEPT !.iters = @ + 1, !.stalled = @ + (IF len < 1 THEN 1 ELSE 0)]

ReadReturn(st, samples, out, acc) ==
  [crashed |-> FALSE, st |-> st, samples |-> samples, out |-> out, acc |-> acc]

\* len < 0: memcpy is asked for (size_t)(len * 2) bytes, far more than the
\* address space holds, and the call never returns.
ReadCrash(st, samples, out, acc) ==
  [crashed |-> TRUE, st |-> st, samples |-> samples, out |-> out, acc |-> acc]

RECURSIVE ReadLoop(_, _, _, _, _, _)
\* if (_pos >= _bufferEnd) { if (!_fillBuffer()) break; }
ReadRefill(f, numSamples, samples, out, acc) ==
  IF ~f.ok
  THEN ReadReturn(f.st, samples, out, AfterFill(acc, f))
  ELSE ReadLoop(f.st, numSamples, samples, out, f.script, AfterFill(acc, f))

ReadLoop(st, numSamples, samples, out, script, acc) ==
  IF ~CanCopy(samples, numSamples, st.pos, st.bufferEnd)
  THEN ReadReturn(st, samples, out, acc)
  ELSE LET len == CopyLen(numSamples - samples, st.pos, st.bufferEnd)
           acc2 == AfterCopy(acc, len)
       IN IF len < 0 THEN ReadCrash(st, samples, out, acc2)
          ELSE LET out2 == out \o Copied(st.buffer, st.pos, len)
                   st2 == [st EXCEPT !.pos = [st.pos EXCEPT !.lo = st.pos.lo + len]]
                   samples2 == samples + len
               IN IF ~PtrLess(st2.pos, st2.bufferEnd)
                  THEN ReadRefill(fillBuffer(st2, script), numSamples, samples2, out2, acc2)
                  ELSE ReadLoop(st2, numSamples, samples2, out2, script, acc2)

\* int OpusStream::readBuffer(int16 *buffer, const int numSamples)
readBuffer(st, numSamples, script) == ReadLoop(st, numSamples, 0, <<>>, script, NoCall)

\* ------------------------------------------------------------- seek
\* A Timestamp, as n frames at rate frames per second.  The times seek is
\* called with: 0 ms and 1 ms (frame 48, past the end of a short stream),
\* and every later frame of the stream up to its end, at the output rate.
MsTimes == [n : 0..1, rate : {1000}]

Times == MsTimes \cup [n : 1..nFrames, rate : {Rate}]

\* convertTimeToStreamPos(where, getRate(), false).totalNumberOfFrames():
\* the time as a frame index at the output rate.
TimeToFrame(where) == (where.n * Rate) \div where.rate

\* op_pcm_seek(_file, frame): the codec may fail any seek, and fails one past the end.
SeekResults(frame) == IF frame <= nFrames THEN {0} \cup SeekErrors ELSE SeekErrors

\* Mutant: a failed op_pcm_seek leaves _pos where it was.
seekKeepsPos(st, frame, result, script) ==
  IF result < 0
  THEN [ok |-> FALSE, sought |-> FALSE, acc |-> NoCall, st |-> st]
  ELSE LET f == fillBuffer([st EXCEPT !.cpos = frame], script)
       IN [ok |-> f.ok, sought |-> TRUE, acc |-> AfterFill(NoCall, f), st |-> f.st]

\* Mutant: seek returns the codec's status as its bool (0, success, is false).
seekReturnsStatus(st, frame, result, script) ==
  IF result < 0
  THEN [ok |-> FALSE, sought |-> FALSE, acc |-> NoCall,
        st |-> [st EXCEPT !.pos = st.bufferEnd]]
  ELSE LET f == fillBuffer([st EXCEPT !.cpos = frame], script)
       IN [ok |-> FALSE, sought |-> TRUE, acc |-> AfterFill(NoCall, f), st |-> f.st]

\* Mutant: a failed op_pcm_seek also drops the duration.
seekDropsLength(st, frame, result, script) ==
  IF result < 0
  THEN [ok |-> FALSE, sought |-> FALSE, acc |-> NoCall,
        st |-> [st EXCEPT !.pos = st.bufferEnd, !.length = 0]]
  ELSE LET f == fillBuffer([st EXCEPT !.cpos = frame], script)
       IN [ok |-> f.ok, sought |-> TRUE, acc |-> AfterFill(NoCall, f), st |-> f.st]

\* Mutant: a successful op_pcm_seek is not followed by a refill.
seekNoRefill(st, frame, result, script) ==
  IF result < 0
  THEN [ok |-> FALSE, sought |-> FALSE, acc |-> NoCall,
        st |-> [st EXCEPT !.pos = st.bufferEnd]]
  ELSE [ok |-> TRUE, sought |-> TRUE, acc |-> NoCall, st |-> [st EXCEPT !.cpos = frame]]

\* bool OpusStream::seek(const Timestamp &where), frame being what where
\* converts to and result what op_pcm_seek returns for it
seek(st, frame, result, script) ==
  IF result < 0
  THEN [ok |-> FALSE, sought |-> FALSE, acc |-> NoCall,
        st |-> [st EXCEPT !.pos = st.bufferEnd]]
  ELSE LET f == fillBuffer([st EXCEPT !.cpos = frame], script)
       IN [ok |-> f.ok, sought |-> TRUE, acc |-> AfterFill(NoCall, f), st |-> f.st]

\* ------------------------------------------------------------- construction
\* op_pcm_total(_file, -1): the stream's frame count, or a failing status.
PcmTotals == {nFrames} \cup TotalErrors

\* a / b of C++, rounding towards zero
TruncDiv(a, b) == IF a >= 0 THEN a \div b ELSE -((-a) \div b)

\* Timestamp(_pcmLength / _rate * 1000, _rate), in milliseconds
Length(pcmLength, r) == TruncDiv(pcmLength, r) * 1000

\* Mutant: a failing op_pcm_total fails the open as a failing first refill does.
OpusStreamNeedsTotal(st, result, total, script) ==
  LET st0 == [st EXCEPT !.bufferEnd = Ptr(BufferSize), !.length = 0]
  IN IF result < 0
     THEN [opened |-> FALSE, queried |-> FALSE, acc |-> NoCall,
           st |-> [st0 EXCEPT !.pos = st0.bufferEnd]]
     ELSE LET f == fillBuffer([st0 EXCEPT !.channels = chans, !.rate = Rate], script)
          IN IF ~f.ok
             THEN [opened |-> TRUE, queried |-> FALSE, acc |-> AfterFill(NoCall, f), st |-> f.st]
             ELSE [opened |-> TRUE, queried |-> TRUE, acc |-> AfterFill(NoCall, f),
                   st |-> IF total < 0 THEN [f.st EXCEPT !.pos = f.st.bufferEnd]
                          ELSE [f.st EXCEPT !.length = Length(total, f.st.rate)]]

\* OpusStream::OpusStream: _length(0, 1000), _bufferEnd(ARRAYEND(_buffer)), then
\* op_open_callbacks (answering result), op_channel_count, _rate, the first
\* _fillBuffer and op_pcm_total (answering total).
OpusStream(st, result, total, script) ==
  LET st0 == [st EXCEPT !.bufferEnd = Ptr(BufferSize), !.length = 0]
  IN IF result < 0
     THEN [opened |-> FALSE, queried |-> FALSE, acc |-> NoCall,
           st |-> [st0 EXCEPT !.pos = st0.bufferEnd]]
     ELSE LET f == fillBuffer([st0 EXCEPT !.channels = chans, !.rate = Rate], script)
          IN IF ~f.ok
             THEN [opened |-> TRUE, queried |-> FALSE, acc |-> AfterFill(NoCall, f), st |-> f.st]
             ELSE [opened |-> TRUE, queried |-> TRUE, acc |-> AfterFill(NoCall, f),
                   st |-> [f.st EXCEPT !.length = Length(total, f.st.rate)]]

\* bool isStereo() const { return _channels >= 2; }
isStereo(st) == st.channels >= 2

\* int getRate() const { return _rate; }
getRate(st) == st.rate

\* Timestamp getLength() const { return _length; }
getLength(st) == st.length

\* ------------------------------------------------------------- teardown
\* Mutant: the close callback deletes the byte source.
closeDeletesStream(src) == [state |-> "deleted", deletes |-> src.deletes + 1]

\* static int close_stream_callback(void *stream): return 0, the byte source
\* is left alone.
close_stream_callback(src) == src

\* op_free(_file): nothing for a null handle; otherwise the codec closes its
\* stream through the close callback and the handle is released.
op_free(h, src) ==
  IF h.state \in {"none", "null"}
  THEN [file |-> h, inStream |-> src]
  ELSE [file |-> [state |-> "freed", frees |-> h.frees + 1],
        inStream |-> close_stream_callback(src)]

\* ~DisposablePtr of _inStream: the byte source is deleted when owned.
DisposeStream(src, owned) ==
  IF owned THEN [state |-> "deleted", deletes |-> src.deletes + 1] ELSE src

\* Mutant: the destructor leaves the handle to the codec.
DestructorKeepsFile(h, src, owned) ==
  [file |-> h, inStream |-> DisposeStream(src, owned)]

\* OpusStream::~OpusStream() { op_free(_file); }, then the members' destructors
Destructor(h, src, owned) ==
  LET f == op_free(h, src)
  IN [file |-> f.file, inStream |-> DisposeStream(f.inStream, owned)]

\* ------------------------------------------------------------- the callbacks
\* An opus_int64 is hi * 2^31 + lo with lo in 0..2^31 - 1; an int32 is itself.
Int32Max == 2147483647

\* The opus_int64 that an int32 converts to.
ToInt64(v) == IF v >= 0 THEN [hi |-> 0, lo |-> v] ELSE [hi |-> -1, lo |-> (v + Int32Max) + 1]

\* (int32)_offset: the low 32 bits, read as a signed value
ToInt32(offset) == IF offset.hi % 2 = 0 THEN offset.lo ELSE (offset.lo - Int32Max) - 1

SEEK_SET == 0
SEEK_CUR == 1
SEEK_END == 2
Whences == {SEEK_SET, SEEK_CUR, SEEK_END}

\* The offsets the codec asks for: around zero and around each multiple of 2^31.
Offsets == [hi : (0 - MaxHi)..MaxHi, lo : {0, 1, Int32Max - 1, Int32Max}]

NoSeek == [asked |-> FALSE, offset |-> 0, whence |-> SEEK_SET, ok |-> FALSE]
NoCallback == [op |-> "none", offset |-> ToInt64(0), whence |-> SEEK_SET, ret |-> 0]

\* bool SeekableReadStream::seek(int32 offset, int whence), answering ok
StreamSeek(offset, whence, ok) ==
  [asked |-> TRUE, offset |-> offset, whence |-> whence, ok |-> ok]

\* static int seek_stream_callback(void *_stream, opus_int64 _offset, int _whence)
seek_stream_callback(offset, whence, ok) ==
  [source |-> StreamSeek(ToInt32(offset), whence, ok), ret |-> IF ok THEN 0 ELSE -1]

\* ------------------------------------------------------------- the debug console
\* An int of flags is the sum of the powers of two of its bits; every flag is
\* below 2^FlagBits.
FlagBits == 13

Bits(n) == {b \in 0..(FlagBits - 1) : (n \div 2^b) % 2 = 1}

RECURSIVE Mask(_)
Mask(bits) == IF bits = {} THEN 0 ELSE LET b == CHOOSE x \in bits : TRUE
                                        IN 2^b + Mask(bits \ {b})

\* a | b, a & b, a & ~b
BitOr(a, b) == Mask(Bits(a) \cup Bits(b))
BitAnd(a, b) == Mask(Bits(a) \cap Bits(b))
BitClear(a, b) == Mask(Bits(a) \ Bits(b))

fDebugNone == 0
fHideBud == 2^0
fHideSprites == 2^1
fHideAnimations == 2^2
fHideText == 2^3
fHideAll == BitOr(BitOr(fHideBud, fHideSprites), BitOr(fHideAnimations, fHideText))
fBoxBud == 2^4
fBoxSprites == 2^5
fBoxAnimations == 2^6
fBoxText == 2^7
fBoxAll == BitOr(BitOr(fBoxBud, fBoxSprites), BitOr(fBoxAnimations, fBoxText))
fMuteSound == 2^8
fMuteMusic == 2^9
fMuteSpeech == 2^10
fMuteAll == BitOr(BitOr(fMuteSound, fMuteMusic), fMuteSpeech)
fFooBar == 2^11
fFooQuux == 2^12

\* A ConsoleCommand; callback tells whether the entry has one (_cmdAudioCallback).
Entry(type, flag, callback) ==
  [type |-> type, flag |-> flag, closeConsole |-> TRUE, callback |-> callback]

showTable ==
  << Entry("bud", fHideBud, FALSE), Entry("sprites", fHideSprites, FALSE),
     Entry("animations", fHideAnimations, FALSE), Entry("text", fHideText, FALSE),
     Entry("all", fHideAll, FALSE) >>

boxTable ==
  << Entry("bud", fBoxBud, FALSE), Entry("sprites", fBoxSprites, FALSE),
     Entry("animations", fBoxAnimations, FALSE), Entry("text", fBoxText, FALSE),
     Entry("all", fBoxAll, FALSE) >>

audioTableWide ==
  << Entry("sound", fMuteSound, TRUE), Entry("music", fMuteMusic, TRUE),
     Entry("speech", fMuteSpeech, TRUE), Entry("all", BitOr(fMuteAll, fFooBar), TRUE) >>

audioTable ==
  << Entry("sound", fMuteSound, TRUE), Entry("music", fMuteMusic, TRUE),
     Entry("speech", fMuteSpeech, TRUE), Entry("all", fMuteAll, TRUE) >>

\* for (int i = 0; table[i].type; ++i) if (!strcmp(argv[1], table[i].type)):
\* the first entry of that type, 0 if the loop reaches the end of the table
Find(table, type) ==
  LET hits == {i \in DOMAIN table : table[i].type = type}
  IN IF hits = {} THEN 0 ELSE CHOOSE i \in hits : \A j \in hits : i <= j

\* (_flags & flag) == flag ? (invert ? "off" : "on") : (invert ? "on" : "off")
Shown(fl, flag, invert) ==
  IF BitAnd(fl, flag) = flag THEN (IF invert THEN "off" ELSE "on")
  ELSE (IF invert THEN "on" ELSE "off")

\* What a command leaves behind: the flags, its return value, what it printed
\* and the arguments its callback was called with (none or one).
Handled(fl, ret, printed, callback) ==
  [flags |-> fl, ret |-> ret, printed |-> printed, callback |-> callback]

\* case 3 of _onOffHandler, for the entry found: on is never assigned when
\* argv[2] is neither "on" nor "off", and the callback is then called with
\* whatever value the variable holds (junk).
Toggle(fl, e, value, invert, junk) ==
  LET on == IF value = "on" THEN TRUE ELSE IF value = "off" THEN FALSE ELSE junk
      fl2 == IF value = "on" THEN (IF invert THEN BitClear(fl, e.flag) ELSE BitOr(fl, e.flag))
             ELSE IF value = "off"
                  THEN (IF invert THEN BitOr(fl, e.flag) ELSE BitClear(fl, e.flag))
             ELSE fl
  IN Handled(fl2, ~e.closeConsole, <<e.type, Shown(fl2, e.flag, invert)>>,
             IF e.callback THEN <<on>> ELSE <<>>)

\* bool TuckerConsole::_onOffHandler(argc, argv, table, usage, invert); argv
\* is indexed from 1 here, so that argv[1] is the command's name.
onOffHandler(fl, argv, table, invert, junk) ==
  LET argc == Len(argv)
      i == IF argc >= 2 THEN Find(table, argv[2]) ELSE 0
  IN IF argc = 1
     THEN Handled(fl, TRUE, [k \in DOMAIN table |-> Shown(fl, table[k].flag, invert)], <<>>)
     ELSE IF argc = 2 /\ i # 0
     THEN Handled(fl, TRUE, <<table[i].type, Shown(fl, table[i].flag, invert)>>, <<>>)
     ELSE IF argc = 3 /\ i # 0
     THEN Toggle(fl, table[i], argv[3], invert, junk)
     ELSE Handled(fl, TRUE, <<"Usage">>, <<>>)

cmdShow(fl, argv, junk) == onOffHandler(fl, argv, showTable, TRUE, junk)
cmdBox(fl, argv, junk) == onOffHandler(fl, argv, boxTable, FALSE, junk)
cmdAudio(fl, argv, junk) == onOffHandler(fl, argv, audioTable, TRUE, junk)

NoCommand == [argv |-> <<>>, ret |-> TRUE, printed |-> <<>>, callback |-> <<>>]

\* ------------------------------------------------------------- the game parts
\* The savefile manager is the environment: a savefile opens for loading
\* exactly if it exists, opening one for saving empties it or fails, and
\* what is written to an open savefile is what it then holds.
NoSaveFile == [exists |-> FALSE, data |-> ""]

\* Common::String::contains(const char *x): x occurs in s
Contains(s, x) == \E i \in 1..(Len(s) - Len(x) + 1) : SubSeq(s, i, i + Len(x) - 1) = x

\* inFile->readLine(): the bytes before the first line end
ReadLine(data) ==
  LET ends == {i \in 1..Len(data) : SubSeq(data, i, i) = "\n"}
  IN IF ends = {} THEN data
     ELSE SubSeq(data, 1, (CHOOSE i \in ends : \A j \in ends : i <= j) - 1)

\* outFile->writeString(str)
WriteString(f, str) == [f EXCEPT !.data = f.data \o str]

\* getOutSaveFile(SPECIAL_SAVESLOT), when it returns a file
Created == [exists |-> TRUE, data |-> ""]

setPartCompleteOverwrites(f, part, canSave) ==
  LET alreadyPresent == f.exists /\ Contains(ReadLine(f.data), part)
  IN IF alreadyPresent THEN [slot |-> f, wrote |-> FALSE, crashed |-> FALSE]
     ELSE IF canSave
     THEN [slot |-> WriteString(Created, part), wrote |-> TRUE, crashed |-> FALSE]
     ELSE [slot |-> f, wrote |-> FALSE, crashed |-> TRUE]

\* void SaveLoad_ns::setPartComplete(const char *part); canSave: the savefile
\* opens for saving (outFile is dereferenced unchecked when it does not)
setPartComplete(f, part, canSave) ==
  LET s == IF f.exists THEN ReadLine(f.data) ELSE ""
      alreadyPresent == f.exists /\ Contains(s, part)
  IN IF alreadyPresent THEN [slot |-> f, wrote |-> FALSE, crashed |-> FALSE]
     ELSE IF canSave
     THEN [slot |-> WriteString(WriteString(Created, s), part), wrote |-> TRUE,
           crashed |-> FALSE]
     ELSE [slot |-> f, wrote |-> FALSE, crashed |-> TRUE]

\* The parts of the game, in the order of complete[].
PartNames == <<"dino", "donna", "dough">>

\* void SaveLoad_ns::getGamePartProgress(bool *complete, int size): inFile
\* is dereferenced unchecked when the savefile does not open
getGamePartProgress(f) ==
  IF f.exists
  THEN [complete |-> [k \in DOMAIN PartNames |-> Contains(ReadLine(f.data), PartNames[k])],
        crashed |-> FALSE]
  ELSE [complete |-> <<>>, crashed |-> TRUE]

NoSave == [op |-> "none", part |-> "", wrote |-> FALSE, complete |-> <<>>]

\* ------------------------------------------------------------- the object
\* The decoder before its constructor has run.
Fresh ==
  [buffer |-> [i \in 1..BufferSize |-> -1], pos |-> Ptr(0), bufferEnd |-> Ptr(0),
   channels |-> 0, rate |-> 0, length |-> 0, cpos |-> 0]

\* The decoder object and its codec, as the operators above take it.
Obj == [buffer |-> buffer, pos |-> pos, bufferEnd |-> bufferEnd, channels |-> channels,
        rate |-> rate, length |-> length, cpos |-> cpos]

Stored(st) ==
  /\ buffer' = st.buffer
  /\ pos' = st.pos
  /\ bufferEnd' = st.bufferEnd
  /\ channels' = st.channels
  /\ rate' = st.rate
  /\ length' = st.length
  /\ cpos' = st.cpos

NoHistory ==
  /\ delivered' = <<>>
  /\ decoded' = <<>>
  /\ base' = 0
  /\ everError' = FALSE
  /\ holeSeen' = FALSE
  /\ failed' = FALSE
  /\ lastFill' = NoFill

\* ------------------------------------------------------------- actions
\* readBuffer(numSamples) copies up to _bufferEnd, so that it calls _fillBuffer
\* (only then do the codec's answers matter).
ReachesFill(numSamples) == PtrLess(pos, bufferEnd) /\ numSamples >= IntDiff(bufferEnd, pos)

\* Before makeOpusStream is called, for a stream of one of the lengths in
\* frames, a build of one of the widths and a caller passing one of the
\* owned flags.  The decoder's fields hold placeholders: the constructor sets
\* _length and _bufferEnd, and _pos, _channels and _rate are assigned before
\* anything reads them (_channels and _rate stay unset when the open fails,
\* and the factory then discards the object unread).
InitWith(frames, widths, owned) ==
  /\ chans \in ChannelCounts
  /\ nFrames \in frames
  /\ ptrBits \in widths
  /\ dispose \in owned
  /\ phase = "init"
  /\ file = [state |-> "none", frees |-> 0]
  /\ inStream = [state |-> "alive", deletes |-> 0]
  /\ rate = Fresh.rate
  /\ length = Fresh.length
  /\ cpos = Fresh.cpos
  /\ channels = Fresh.channels
  /\ buffer = Fresh.buffer
  /\ pos = Fresh.pos
  /\ bufferEnd = Fresh.bufferEnd
  /\ delivered = <<>>
  /\ decoded = <<>>
  /\ base = 0
  /\ everError = FALSE
  /\ holeSeen = FALSE
  /\ failed = FALSE
  /\ misused = FALSE
  /\ lastFill = NoFill
  /\ last = [op |-> "none", arg |-> 0, status |-> 0, total |-> 0, ret |-> 0, copied |-> 0,
             fills |-> 0, iters |-> 0, stalled |-> 0]
  /\ source = NoSeek
  /\ adapter = NoCallback
  /\ flags = fDebugNone
  /\ console = NoCommand
  /\ slot = NoSaveFile
  /\ game = "running"
  /\ recorded = {}
  /\ saveLoad = NoSave

Init == InitWith(0..MaxFrames, PointerWidths, {TRUE})

\* SeekableAudioStream *makeOpusStream(stream, disposeAfterUse): new
\* OpusStream, and delete s; return 0 when s->endOfData()
MakeOpusStream(result, total, script) ==
  /\ phase = "init"
  /\ \E c \in {OpusStream(Obj, result, total, script)} :
     \E null \in {endOfData(c.st.pos, c.st.bufferEnd)} :
     \E opened \in {[state |-> IF result < 0 THEN "null" ELSE "open", frees |-> file.frees]} :
     \E d \in {IF null THEN Destructor(opened, inStream, dispose)
                ELSE [file |-> opened, inStream |-> inStream]} :
        /\ Stored(c.st)
        /\ phase' = IF null THEN "null" ELSE "live"
        /\ file' = d.file
        /\ inStream' = d.inStream
        /\ delivered' = <<>>
        /\ decoded' = c.acc.written
        /\ base' = 0
        /\ everError' = (result < 0 \/ c.acc.negs # {})
        /\ holeSeen' = (c.acc.holes > 0)
        /\ failed' = (c.acc.fills > 0 /\ ~c.acc.fill.ok)
        /\ lastFill' = IF c.acc.fills > 0 THEN c.acc.fill ELSE lastFill
        /\ last' = [op |-> "makeOpusStream", arg |-> 0, status |-> result,
                    total |-> IF c.queried THEN total ELSE 0,
                    ret |-> IF null THEN 0 ELSE 1, copied |-> 0, fills |-> c.acc.fills,
                    iters |-> 0, stalled |-> 0]
  /\ UNCHANGED <<chans, nFrames, ptrBits, dispose, misused>>
  /\ UNCHANGED others

ReadBuffer(numSamples, script) ==
  /\ phase = "live"
  /\ script # <<>> => ReachesFill(numSamples)
  /\ \E r \in {readBuffer(Obj, numSamples, script)} :
        /\ Stored(r.st)
        /\ phase' = IF r.crashed THEN "crashed" ELSE "live"
        /\ delivered' = delivered \o r.out
        /\ decoded' = decoded \o r.acc.written
        /\ everError' = (everError \/ r.acc.negs # {})
        /\ holeSeen' = (holeSeen \/ r.acc.holes > 0)
        /\ failed' = (failed \/ (r.acc.fills > 0 /\ ~r.acc.fill.ok))
        /\ misused' = (misused \/ (r.acc.fills > 0 /\ file.state # "open"))
        /\ lastFill' = IF r.acc.fills > 0 THEN r.acc.fill ELSE lastFill
        /\ last' = [op |-> "readBuffer", arg |-> numSamples, status |-> 0, total |-> 0,
                    ret |-> r.samples, copied |-> Len(r.out), fills |-> r.acc.fills,
                    iters |-> r.acc.iters, stalled |-> r.acc.stalled]
  /\ UNCHANGED <<chans, nFrames, ptrBits, dispose, file, inStream, base>>
  /\ UNCHANGED others

Seek(where, result, script) ==
  /\ phase = "live"
  /\ \E frame \in {TimeToFrame(where)} :
     \E r \in {seek(Obj, frame, result, script)} :
        /\ Stored(r.st)
        /\ phase' = "live"
        /\ delivered' = IF r.sought THEN <<>> ELSE delivered
        /\ decoded' = IF r.sought THEN r.acc.written ELSE decoded
        /\ base' = IF r.sought THEN frame * chans ELSE base
        /\ everError' = (everError \/ result < 0 \/ r.acc.negs # {})
        /\ holeSeen' = IF r.sought THEN r.acc.holes > 0 ELSE holeSeen
        /\ failed' = ~r.ok
        /\ misused' = (misused \/ file.state # "open")
        /\ lastFill' = IF r.acc.fills > 0 THEN r.acc.fill ELSE lastFill
        /\ last' = [op |-> "seek", arg |-> IF r.ok THEN frame ELSE 0, status |-> result,
                    total |-> 0,
                    ret |-> IF r.ok THEN 1 ELSE 0, copied |-> 0, fills |-> r.acc.fills,
                    iters |-> 0, stalled |-> 0]
  /\ UNCHANGED <<chans, nFrames, ptrBits, dispose, file, inStream>>
  /\ UNCHANGED others

\* delete of the decoder the factory returned: the destructor runs and the
\* object is gone.
Delete ==
  /\ phase = "live"
  /\ \E d \in {Destructor(file, inStream, dispose)} :
        /\ file' = d.file
        /\ inStream' = d.inStream
  /\ phase' = "deleted"
  /\ Stored(Fresh)
  /\ NoHistory
  /\ last' = [op |-> "delete", arg |-> 0, status |-> 0, total |-> 0, ret |-> 0, copied |-> 0,
              fills |-> 0, iters |-> 0, stalled |-> 0]
  /\ UNCHANGED <<chans, nFrames, ptrBits, dispose, misused>>
  /\ UNCHANGED others

\* The scripts that matter to a call: a chosen answer is given only if the
\* call makes that many op_read calls, which it does exactly if it makes them
\* when every one answers as many frames as fit; with any other script the
\* call is the one under <<>>.
ReadScripts(numSamples) ==
  IF phase = "live" /\ ReachesFill(numSamples)
  THEN ScriptsWithin(readBuffer(Obj, numSamples, <<>>).acc.calls)
  ELSE {<<>>}

SeekScripts(where) ==
  IF phase = "live" /\ 0 \in SeekResults(TimeToFrame(where))
  THEN ScriptsWithin(seek(Obj, TimeToFrame(where), 0, <<>>).acc.calls)
  ELSE {<<>>}

Next ==
  \/ \E script \in Scripts, total \in PcmTotals : MakeOpusStream(0, total, script)
  \/ \E result \in OpenErrors : MakeOpusStream(result, 0, <<>>)
  \/ \E numSamples \in 0..MaxRead :
       \E script \in ReadScripts(numSamples) : ReadBuffer(numSamples, script)
  \/ \E where \in Times :
       \/ \E script \in SeekScripts(where) :
            0 \in SeekResults(TimeToFrame(where)) /\ Seek(where, 0, script)
       \/ \E result \in SeekResults(TimeToFrame(where)) \ {0} : Seek(where, result, <<>>)
  \/ Delete

Spec == Init /\ [][Next]_vars

\* The same calls, but seeks by whole milliseconds only, and reads only
\* while the codec is within a stream's first frames (every stream longer
\* than MaxFrames frames is read from without reaching its end).
NextMs ==
  \/ \E script \in Scripts, total \in PcmTotals : MakeOpusStream(0, total, script)
  \/ \E result \in OpenErrors : MakeOpusStream(result, 0, <<>>)
  \/ \E numSamples \in 0..MaxRead :
       \E script \in ReadScripts(numSamples) :
          cpos <= MaxPos /\ ReadBuffer(numSamples, script)
  \/ \E where \in MsTimes :
       \/ \E script \in SeekScripts(where) :
            0 \in SeekResults(TimeToFrame(where)) /\ Seek(where, 0, script)
       \/ \E result \in SeekResults(TimeToFrame(where)) \ {0} : Seek(where, result, <<>>)
  \/ Delete

\* Streams of whole halves of a second, for the reported duration.
Durations == {h * (Rate \div 2) : h \in 0..MaxHalves}

InitLength == InitWith(Durations, {64}, {TRUE})

SpecLength == InitLength /\ [][NextMs]_vars

\* Owned and borrowed byte sources, for the teardown.
InitLife == InitWith(0..MaxFrames, {64}, BOOLEAN)

SpecLife == InitLife /\ [][NextMs]_vars

\* ------------------------------------------------------------- the codec's seeks
\* The codec library calls the seek callback of the byte source it was opened over.
SeekStreamCallback(offset, whence, ok) ==
  /\ \E c \in {seek_stream_callback(offset, whence, ok)} :
        /\ source' = c.source
        /\ adapter' = [op |-> "seek", offset |-> offset, whence |-> whence, ret |-> c.ret]
  /\ UNCHANGED <<decoder, flags, console, progress>>

NextCallbacks ==
  \E offset \in Offsets, whence \in Whences, ok \in BOOLEAN :
     SeekStreamCallback(offset, whence, ok)

InitCallbacks == InitWith({0}, {64}, {TRUE}) /\ chans = 2

SpecCallbacks == InitCallbacks /\ [][NextCallbacks]_vars

\* ------------------------------------------------------------- the console's commands
\* What is typed after a command's name: nothing, an item, an item and a
\* value, or one word too many.  The items typed are the first and the last
\* single flag of each table, "all", and a name that is in no table.
Items == {"bud", "text", "all", "sound", "speech", "buddy"}
Values == {"on", "off", "toggle"}

Arguments ==
  {<<>>} \cup {<<item>> : item \in Items}
         \cup {<<item, value>> : item \in Items, value \in Values}
         \cup {<<"all", "on", "now">>}

\* The values the unassigned on can hold when the callback is called with it.
Junk(args) == IF Len(args) = 2 /\ args[2] \notin {"on", "off"} THEN BOOLEAN ELSE {FALSE}

\* A command typed at the console: the debugger calls the method registered
\* under its name (REGISTER_CONSOLE_CMD) with the words typed.
Ran(argv, r) ==
  /\ flags' = r.flags
  /\ console' = [argv |-> argv, ret |-> r.ret, printed |-> r.printed, callback |-> r.callback]
  /\ UNCHANGED <<decoder, source, adapter, progress>>

CmdShow(args, junk) == \E r \in {cmdShow(flags, <<"show">> \o args, junk)} : Ran(<<"show">> \o args, r)
CmdBox(args, junk) == \E r \in {cmdBox(flags, <<"box">> \o args, junk)} : Ran(<<"box">> \o args, r)
CmdAudio(args, junk) == \E r \in {cmdAudio(flags, <<"audio">> \o args, junk)} : Ran(<<"audio">> \o args, r)

NextConsole ==
  \/ \E args \in Arguments : \E junk \in Junk(args) : CmdShow(args, junk)
  \/ \E args \in Arguments : \E junk \in Junk(args) : CmdBox(args, junk)
  \/ \E args \in Arguments : \E junk \in Junk(args) : CmdAudio(args, junk)

InitConsole == InitWith({0}, {64}, {TRUE}) /\ chans = 2

SpecConsole == InitConsole /\ [][NextConsole]_vars

\* ------------------------------------------------------------- the game's progress
\* The names setPartComplete is called with: the three parts of the game,
\* and a name that is the beginning of two of them.
Parts == {PartNames[k] : k \in DOMAIN PartNames} \cup {"do"}

SetPartComplete(part, canSave) ==
  /\ game = "running"
  /\ \E r \in {setPartComplete(slot, part, canSave)} :
        /\ slot' = r.slot
        /\ game' = IF r.crashed THEN "crashed" ELSE "running"
        /\ recorded' = IF r.crashed THEN recorded ELSE recorded \cup {part}
        /\ saveLoad' = [op |-> "setPartComplete", part |-> part, wrote |-> r.wrote,
                        complete |-> <<>>]
  /\ UNCHANGED <<decoder, source, adapter, flags, console>>

GetGamePartProgress ==
  /\ game = "running"
  /\ \E r \in {getGamePartProgress(slot)} :
        /\ game' = IF r.crashed THEN "crashed" ELSE "running"
        /\ saveLoad' = [op |-> "getGamePartProgress", part |-> "", wrote |-> FALSE,
                        complete |-> r.complete]
  /\ UNCHANGED <<decoder, source, adapter, flags, console, slot, recorded>>

\* The game is started again after it crashed; its savefiles are still there.
Relaunch ==
  /\ game = "crashed"
  /\ game' = "running"
  /\ saveLoad' = [op |-> "relaunch", part |-> "", wrote |-> FALSE, complete |-> <<>>]
  /\ UNCHANGED <<decoder, source, adapter, flags, console, slot, recorded>>

NextProgress ==
  \/ \E part \in Parts, canSave \in BOOLEAN : SetPartComplete(part, canSave)
  \/ GetGamePartProgress
  \/ Relaunch

InitProgress == InitWith({0}, {64}, {TRUE}) /\ chans = 2

SpecProgress == InitProgress /\ [][NextProgress]_vars

\* ------------------------------------------------------------- properties
Range(s) == {s[i] : i \in DOMAIN s}

EOD == endOfData(pos, bufferEnd)

\* The samples in [_pos, _bufferEnd).
Unread == [i \in 1..IntDiff(bufferEnd, pos) |-> buffer[pos.lo + i]]

\* The stream's interleaved samples from index b on, n of them.
StreamFrom(b, n) == [i \in 1..n |-> b + i - 1]

Total == nFrames * chans

\* C1: while the codec has returned no negative status, what readBuffer has
\* delivered, followed by what is buffered and unread, is the codec's sample
\* sequence from where it was positioned (index 0 after the open), in order
\* and without gap or repeat; and at endOfData() everything up to the end of
\* the stream has been delivered.
C1_Lossless ==
  (phase = "live" /\ ~everError) =>
    /\ delivered \o Unread = StreamFrom(base, Len(delivered) + Len(Unread))
    /\ EOD => Len(delivered) = Total - base

C1_Witness ==
  /\ phase = "live" /\ ~everError /\ base = 0 /\ chans = 2
  /\ last.op = "readBuffer" /\ last.fills = 2
  /\ EOD /\ Len(delivered) = Total /\ Total > BufferSize

\* C2: every readBuffer(buffer, numSamples) call returns, and returns a count
\* r with 0 <= r <= numSamples that is the number of samples it copied.
C2_ReadCount ==
  last.op = "readBuffer" =>
    /\ phase = "live"
    /\ 0 <= last.ret /\ last.ret <= last.arg
    /\ last.ret = last.copied

\* C3: _buffer <= _pos <= _bufferEnd <= _buffer + capacity, and every sample
\* in [_pos, _bufferEnd) was written by the codec in the most recent refill
\* and has not been delivered.
C3_BufferBounds ==
  phase = "live" =>
    /\ pos.hi = 0 /\ bufferEnd.hi = 0
    /\ 0 <= pos.lo /\ pos.lo <= bufferEnd.lo /\ bufferEnd.lo <= BufferSize
    /\ Range(Unread) \subseteq Range(lastFill.written)
    /\ Range(Unread) \cap Range(delivered) = {}

\* C4: after a hole, with no failing status, the stream goes on: the factory
\* or the seek hands out a decoder that reads without crashing, what is
\* delivered and what is buffered are together the samples the codec decoded,
\* and endOfData() is true only at the codec's end of stream.
C4_HoleKeepsStream ==
  (phase # "init" /\ holeSeen /\ ~failed) =>
    /\ phase # "crashed"
    /\ delivered \o Unread = decoded
    /\ EOD => cpos = nFrames

\* C5: makeOpusStream returns 0 when the open fails, the first refill fails
\* or the first refill decodes nothing, and otherwise a decoder whose
\* endOfData() is false and which holds at least one sample the codec
\* decoded for the first readBuffer.
C5_FactoryNullOrReady ==
  last.op = "makeOpusStream" =>
    /\ phase \in {"null", "live"}
    /\ (last.fills = 0 \/ ~lastFill.ok \/ lastFill.sum = 0) => phase = "null"
    /\ phase = "live" =>
         /\ ~EOD
         /\ Unread # <<>>
         /\ Range(Unread) \subseteq Range(lastFill.written)

\* C6: at endOfData() a readBuffer call returns 0, copies nothing, calls no
\* refill and leaves endOfData() true; endOfData() turns false again only in
\* a seek call that returns true.
C6_ExhaustedStaysExhausted ==
  [][(phase = "live" /\ EOD) =>
       /\ last'.op = "readBuffer" =>
            /\ phase' = "live" /\ EOD'
            /\ last'.ret = 0 /\ last'.copied = 0 /\ last'.fills = 0
       /\ ~EOD' => (last'.op = "seek" /\ last'.ret = 1)]_vars

C6_Witness ==
  /\ phase = "live" /\ EOD /\ ~failed /\ cpos = nFrames
  /\ last.op = "readBuffer" /\ last.arg >= 1 /\ last.ret = 0

\* C7: endOfData() is true exactly when a refill or a seek has failed or the
\* codec is at its end of stream with the buffer consumed; while it is false
\* there is a sample to deliver.
C7_EndOfDataExact ==
  phase = "live" =>
    /\ EOD <=> (failed \/ (cpos = nFrames /\ Unread = <<>>))
    /\ ~EOD => Unread # <<>>

\* C8 as stated: once a refill or a seek has failed, endOfData() stays true
\* and nothing more is delivered, whatever is called.
C8_PermanentlyExhausted ==
  [][(phase = "live" /\ failed) => (EOD' /\ last'.copied = 0)]_vars

\* C8 amended: once a refill or a seek has failed, endOfData() is true, and
\* every call other than a seek that returns true leaves it true and
\* delivers nothing, until the decoder is deleted.
C8_ExhaustedUntilSeek ==
  [][(phase = "live" /\ failed) =>
       /\ EOD
       /\ \/ last'.op = "seek" /\ last'.ret = 1
          \/ last'.op = "delete" /\ phase' = "deleted"
          \/ phase' = "live" /\ failed' /\ EOD' /\ last'.copied = 0]_vars

C8_Witness ==
  /\ phase = "live" /\ failed /\ EOD
  /\ lastFill.ran /\ ~lastFill.ok
  /\ last.op = "readBuffer" /\ last.arg >= 1 /\ last.ret = 0 /\ last.fills = 0

\* C9: a refill that returns true leaves _pos at _buffer and _bufferEnd - _pos
\* equal to the sum of result * _channels over its op_read calls that
\* returned samples.
C9_RefillSpan ==
  (lastFill.ran /\ lastFill.ok) =>
    /\ lastFill.pos = Ptr(0)
    /\ lastFill.bufferEnd = Ptr(lastFill.sum)

\* C10: a refill returns false exactly when op_read returned a negative
\* status other than OP_HOLE in it; it then leaves _pos = _bufferEnd, and
\* the samples decoded in it are never delivered.
C10_FatalAborts ==
  /\ lastFill.ran =>
       /\ lastFill.ok <=> (lastFill.negs \subseteq {OP_HOLE})
       /\ ~lastFill.ok =>
            /\ lastFill.pos = lastFill.bufferEnd
            /\ Range(lastFill.written) \cap Range(delivered) = {}
  /\ (phase = "live" /\ failed) => (pos = bufferEnd /\ EOD)

C10_Witness ==
  /\ phase = "live" /\ lastFill.ran /\ ~lastFill.ok /\ lastFill.written # <<>>
  /\ last.op = "readBuffer" /\ last.ret >= 1 /\ EOD

\* What is delivered since the codec was positioned, followed by what is
\* buffered and unread, is what the codec decoded from there on (the stream
\* from that sample on, unless a hole lost some of it).
Positioned ==
  /\ phase = "live"
  /\ delivered \o Unread = decoded
  /\ ~holeSeen => decoded = StreamFrom(base, Len(decoded))

\* C11: a seek(where) that returns true leaves the codec's samples from the
\* frame where converts to (interleaved index frame * channels) to be
\* delivered, in order, and nothing that was buffered before it; and the
\* readBuffer call that follows it delivers from them, whatever refill it
\* runs, unless that refill fails.
C11_SeekPositions ==
  [][/\ (last'.op = "seek" /\ last'.ret = 1) =>
          /\ base' = last'.arg * chans /\ delivered' = <<>>
          /\ Positioned'
     /\ (last.op = "seek" /\ last.ret = 1 /\ last'.op = "readBuffer" /\ ~failed') =>
          Positioned']_vars

\* The samples in [st.pos, st.bufferEnd).
UnreadOf(st) == [i \in 1..IntDiff(st.bufferEnd, st.pos) |-> st.buffer[st.pos.lo + i]]

\* Nothing readBuffer or seek reads tells the decoders a and b apart.
SameToReader(a, b) ==
  /\ a.pos = b.pos /\ a.bufferEnd = b.bufferEnd
  /\ a.channels = b.channels /\ a.cpos = b.cpos
  /\ UnreadOf(a) = UnreadOf(b)

\* C12: on a stream whose codec has returned no negative status, a seek to
\* time 0 that returns true leaves the decoder as a fresh open leaves it
\* (same cursor, same buffered samples, same codec position), whatever was
\* read or sought before; and what is delivered from then on is the stream
\* from its first sample, up to its end when endOfData() is reached.
C12_SeekZeroIsFresh ==
  [][(last'.op = "seek" /\ last'.ret = 1 /\ last'.arg = 0 /\ ~everError') =>
       /\ \E script \in Scripts :
            \E c \in {OpusStream(Fresh, 0, nFrames, script)} :
               c.opened /\ c.acc.negs = {} /\ SameToReader(c.st, Obj')
       /\ delivered' = <<>>
       /\ Unread' = StreamFrom(0, Len(Unread'))
       /\ EOD' <=> Total = 0]_vars

C12_Witness ==
  /\ last.op = "seek" /\ last.ret = 1 /\ last.arg = 0 /\ ~everError
  /\ Total > BufferSize /\ Len(Unread) = BufferSize /\ lastFill.sum = BufferSize

\* C13: when op_pcm_seek fails, seek returns false without calling
\* _fillBuffer, leaves _pos == _bufferEnd whatever was buffered, so that
\* endOfData() is true, and a readBuffer call that follows returns 0.
C13_FailedSeekExhausts ==
  [][/\ (last'.op = "seek" /\ last'.status < 0) =>
          /\ last'.ret = 0 /\ last'.fills = 0
          /\ pos' = bufferEnd' /\ EOD'
          /\ bufferEnd' = bufferEnd /\ cpos' = cpos
     /\ (last.op = "seek" /\ last.status < 0 /\ last'.op = "readBuffer") =>
          last'.ret = 0 /\ last'.copied = 0]_vars

C13_Witness ==
  /\ last.op = "seek" /\ last.status < 0 /\ last.ret = 0
  /\ ~holeSeen /\ Len(decoded) > Len(delivered) /\ Len(delivered) > 0

\* C14: the duration getLength() reports for an opened stream is its total
\* frame count divided by the output rate, to within the 120 ms of one
\* buffer fill (a stream of 24000 frames reports about 500 ms).
C14_LengthIsDuration ==
  (phase = "live" /\ last.op = "makeOpusStream" /\ last.total >= 0) =>
    /\ getLength(Obj) * getRate(Obj) - last.total * 1000 <= FillMs * Rate
    /\ last.total * 1000 - getLength(Obj) * getRate(Obj) <= FillMs * Rate

\* C15: what isStereo(), getRate() and getLength() report of a decoder the
\* factory returned is what the open fixed (the stream's channel count, 48000
\* and the duration computed then), and no readBuffer, seek or refill,
\* failing or not, changes it.
C15_MetadataFixed ==
  [][(phase = "live" /\ phase' = "live") =>
       /\ isStereo(Obj) = (chans >= 2) /\ getRate(Obj) = Rate
       /\ isStereo(Obj') = isStereo(Obj)
       /\ getRate(Obj') = getRate(Obj)
       /\ getLength(Obj') = getLength(Obj)]_vars

C15_Witness ==
  /\ phase = "live" /\ isStereo(Obj) /\ getRate(Obj) = Rate /\ getLength(Obj) = 1000
  /\ last.op = "seek" /\ last.ret = 0 /\ last.fills = 1 /\ ~lastFill.ok

\* C16: the handle op_open_callbacks returned is released by op_free exactly
\* once, at teardown (the factory's delete or the caller's): it is open and
\* unreleased while the decoder lives, released once when the decoder is
\* gone, never released when the open failed and there is none, and no codec
\* function is called on a handle that is not open.
C16_HandleReleasedOnce ==
  /\ file.frees <= 1 /\ ~misused
  /\ phase = "init" => file = [state |-> "none", frees |-> 0]
  /\ phase \in {"live", "crashed"} => file = [state |-> "open", frees |-> 0]
  /\ phase = "deleted" => file = [state |-> "freed", frees |-> 1]
  /\ phase = "null" =>
       file = IF last.status < 0 THEN [state |-> "null", frees |-> 0]
              ELSE [state |-> "freed", frees |-> 1]

C16_Witness ==
  /\ phase = "null" /\ last.op = "makeOpusStream" /\ last.status = 0
  /\ lastFill.ran /\ ~lastFill.ok
  /\ file = [state |-> "freed", frees |-> 1]

\* C17: the byte source is deleted exactly once, at teardown (the factory's
\* delete included), when the caller passed DisposeAfterUse::YES, and never
\* when it passed NO; the close callback the codec calls leaves it alone.
C17_SourceOwnedOnce ==
  /\ inStream.deletes <= 1
  /\ close_stream_callback(inStream) = inStream
  /\ phase \in {"init", "live", "crashed"} => inStream = [state |-> "alive", deletes |-> 0]
  /\ phase \in {"null", "deleted"} =>
       inStream = IF dispose THEN [state |-> "deleted", deletes |-> 1]
                  ELSE [state |-> "alive", deletes |-> 0]

C17_Witness ==
  /\ phase = "deleted" /\ ~dispose
  /\ file = [state |-> "freed", frees |-> 1]
  /\ inStream = [state |-> "alive", deletes |-> 0]

\* C18: when op_pcm_total fails after a successful open and first refill,
\* the open goes on as if it had not: the cursor and the buffer end are those
\* the refill left, the factory returns the decoder exactly when the refill
\* left something between them, endOfData() is then false and the samples
\* the codec decoded are buffered for readBuffer; only the duration, 0, shows
\* the failure.
C18_TotalErrorKeepsStream ==
  (last.op = "makeOpusStream" /\ last.total < 0) =>
    /\ lastFill.ran /\ lastFill.ok
    /\ pos = lastFill.pos /\ bufferEnd = lastFill.bufferEnd
    /\ phase = IF endOfData(lastFill.pos, lastFill.bufferEnd) THEN "null" ELSE "live"
    /\ phase = "live" => ~EOD
    /\ (~holeSeen /\ decoded # <<>>) => phase = "live" /\ Unread = decoded
    /\ getLength(Obj) = 0

C18_Witness ==
  /\ last.op = "makeOpusStream" /\ last.total < 0 /\ nFrames = Rate
  /\ phase = "live" /\ ~EOD /\ Len(Unread) = BufferSize /\ getLength(Obj) = 0

\* C19: every readBuffer call returns after at most numSamples iterations of
\* its loop, each of which copies at least one sample; and every refill ends
\* after a bounded number of op_read calls (one per frame buffered, one per
\* hole, and the last), because the buffer is full, because op_read returned
\* 0, or because it returned a non-recoverable status.
C19_Terminates ==
  /\ last.op = "readBuffer" =>
       /\ phase = "live"
       /\ last.stalled = 0 /\ last.iters <= last.arg /\ last.iters <= last.copied
  /\ lastFill.ran =>
       /\ lastFill.calls <= BufferSize + lastFill.holes + 1
       /\ lastFill.exit \in {"condition", "zero", "error"}
       /\ lastFill.exit = "condition" => lastFill.samplesRead = BufferSize
       /\ lastFill.exit = "error" <=> ~lastFill.ok

\* C20: seek returns true exactly when op_pcm_seek succeeded and the refill
\* that follows met no non-recoverable status, whether or not it buffered a
\* sample; and after a seek that returned true endOfData() is false exactly
\* when the stream has a frame at or after the target (a seek to the end of
\* the stream returns true with endOfData() true).
C20_SeekResult ==
  last.op = "seek" =>
    /\ last.ret = 1 <=>
         /\ last.status >= 0
         /\ last.fills = 1 /\ \A code \in lastFill.negs : ~IsFatal(code)
    /\ last.ret = 1 => (~EOD <=> last.arg < nFrames)

\* C21: whenever the codec has called the seek callback, the byte source was
\* asked to seek to exactly the 64-bit offset the codec requested (offsets
\* above 2^31 - 1 included) with the same whence, and the callback returned 0
\* if the byte source's seek succeeded and -1 otherwise.
C21_SeekForwardsOffset ==
  adapter.op = "seek" =>
    /\ source.asked
    /\ ToInt64(source.offset) = adapter.offset
    /\ source.whence = adapter.whence
    /\ adapter.ret = (IF source.ok THEN 0 ELSE -1)

\* The bits of a command's own group, and the item names it knows.
GroupBits(cmd) ==
  IF cmd = "show" THEN 0..3 ELSE IF cmd = "box" THEN 4..7 ELSE 8..10

TableOf(cmd) ==
  IF cmd = "show" THEN showTable ELSE IF cmd = "box" THEN boxTable ELSE audioTable

Names(cmd) == {TableOf(cmd)[i].type : i \in DOMAIN TableOf(cmd)}

\* C22: a show, box or audio command changes no flag bit outside its own
\* group (show: bits 0-3, box: bits 4-7, audio: bits 8-10), so the bits of
\* the other groups and fFooBar and fFooQuux stay as they were, and a command
\* whose value is neither "on" nor "off", or whose item is not in its table,
\* leaves every flag as it was.
C22_OwnGroupOnly ==
  [][(console' # console \/ flags' # flags) /\ console'.argv # <<>> =>
       LET argv == console'.argv
       IN /\ Bits(flags') \ GroupBits(argv[1]) = Bits(flags) \ GroupBits(argv[1])
          /\ Len(argv) >= 3 /\ argv[3] \notin {"on", "off"} => flags' = flags
          /\ Len(argv) >= 2 /\ argv[2] \notin Names(argv[1]) => flags' = flags]_vars

\* "audio all off" has muted everything while bud was hidden and text boxed.
C22_Witness ==
  /\ console.argv = <<"audio", "all", "off">>
  /\ Bits(flags) = {0, 7, 8, 9, 10}

\* C23: a setPartComplete(part) call made while the savefile of slot 999
\* contains part writes nothing and leaves the savefile as it was, and a
\* getGamePartProgress call reports complete every part of the game that an
\* earlier setPartComplete call has recorded.
C23_PartsStayComplete ==
  [][/\ saveLoad'.op = "setPartComplete" /\ slot.exists /\ Contains(slot.data, saveLoad'.part)
          => ~saveLoad'.wrote /\ slot' = slot /\ game' = "running"
     /\ saveLoad'.op = "getGamePartProgress"
          => \A k \in DOMAIN PartNames :
                PartNames[k] \in recorded => game' = "running" /\ saveLoad'.complete[k]]_vars

\* All three parts were recorded, each once, and the game reports all three.
C23_Witness ==
  /\ saveLoad.op = "getGamePartProgress"
  /\ saveLoad.complete = <<TRUE, TRUE, TRUE>>
  /\ Len(slot.data) = 14
  /\ recorded = Parts

====
